---- MODULE Spec2Model ----
(***************************************************************************)
(* rum job clock (rum/src/job/clock.rs): a Clock owns a shared, read-only  *)
(* list of ScheduledJobs.  Clock::run ticks an interval timer once per     *)
(* second; on every tick it captures the current time, clones the Arc of   *)
(* the job list and spawns one task (a "dispatch unit") that walks the     *)
(* list in order, asks every job should_run(now) and awaits schedule() of  *)
(* the due ones, logging a failure of schedule() through tracing::error!.  *)
(*                                                                         *)
(* rum HTTP request (rum/src/http/request.rs): Request::read takes a byte  *)
(* stream, reads the head, then reads exactly Content-Length bytes of body *)
(* and returns the Request, or an error if the stream ends too early.      *)
(***************************************************************************)
EXTENDS Integers, Sequences, FiniteSets, Bags, TLC

\* ---------------------------------------------------------------- bounds
MaxJobs == 3        \* longest job list explored
MaxTicks == 2       \* ticks of the interval explored; the clock stops at the last
MaxStream == 4      \* longest byte stream handed to Request::read

\* ---------------------------------------------------------------- values
Times == 0 .. MaxTicks - 1             \* clock readings, in whole seconds
JobNames == {"a", "b"}                 \* Job::job_name() of the registered handlers
Errors == {"Failed"}                   \* super::Error values an executor returns
Crons == SUBSET Times                  \* the schedules: sets of matching seconds

VARIABLES
    jobs,       \* Clock.jobs: Arc<Vec<ScheduledJob>>
    pc,         \* Clock::run: "new" before the call, "tick" at clock.tick().await
    time,       \* seconds elapsed; read by the interval and by now_utc()
    clock,      \* the interval of line 38: its next deadline
    units,      \* the tasks spawned at line 45, one per tick, in tick order
    sink,       \* tracing::error! lines emitted, a bag of [job, err]
    sent,       \* Request::read: everything the peer put on the stream
    stream,     \* the bytes of the stream not read yet
    rpc,        \* Request::read: "idle", "head", "body", then "ok" or "err"
    head,       \* the Head read at line 35
    body,       \* the buffer of line 37
    filled,     \* how many bytes of body read_exact has filled
    result      \* what Request::read returned

\* The state of the job clock and that of a Request::read
job_vars == <<jobs, pc, time, clock, units, sink>>
http == <<sent, stream, rpc, head, body, filled, result>>

vars == <<job_vars, http>>

\* A ScheduledJob (lines 10-14).  job is the handler, seen through its name;
\* cron is the set of clock readings its schedule matches.
ScheduledJob == [job : [job_name : JobNames], args : {"null"}, cron : Crons]

\* The handlers registered in the job lists explored
Registry ==
    { [job |-> [job_name |-> "a"], args |-> "null", cron |-> Times],
      [job |-> [job_name |-> "b"], args |-> "null", cron |-> {1}],
      [job |-> [job_name |-> "a"], args |-> "null", cron |-> {}] }

RECURSIVE SeqsUpTo(_, _)
SeqsUpTo(S, n) ==
    IF n = 0 THEN {<<>>}
    ELSE LET shorter == SeqsUpTo(S, n - 1)
         IN  shorter \cup {Append(s, x) : s \in {t \in shorter : Len(t) = n - 1}, x \in S}

\* Cron::should_run: a total, pure predicate of the timestamp.
CronShouldRun(cron, t) == t \in cron

\* should_run that answers yes whatever the schedule says
should_run_always(job, t) == TRUE

\* should_run that gives up on a job once a failure of it has been logged
should_run_unless_failed(job, t) ==
    /\ CronShouldRun(job.cron, t)
    /\ \A e \in Errors : CopiesIn([job |-> job.job.job_name, err |-> e], sink) = 0

\* should_run that asks the schedule about the second to come
should_run_ahead(job, t) == CronShouldRun(job.cron, t + 1)

\* ScheduledJob::should_run (lines 23-25)
should_run(job, t) == CronShouldRun(job.cron, t)

\* ScheduledJob::job (lines 27-29) followed by Job::job_name()
job_name(job) == job.job.job_name

\* What a unit has done with one job so far: the calls of should_run it made
\* (asked), the timestamp it passed (at) and the answer (due), the calls of
\* schedule() it made (runs) and how many of them returned Ok and Err.
Untouched == [asked |-> 0, at |-> -1, due |-> FALSE, runs |-> 0, oks |-> 0, errs |-> 0]

\* job.should_run(&now) answered b for timestamp t; if b, job.schedule() is called
Checked(d, t, b) ==
    [d EXCEPT !.asked = @ + 1, !.at = t, !.due = b, !.runs = IF b THEN @ + 1 ELSE @]

\* job.schedule().await returned Ok(()) / Err(_)
ReturnedOk(d) == [d EXCEPT !.oks = @ + 1]
ReturnedErr(d) == [d EXCEPT !.errs = @ + 1]

\* A for loop that stops one job short of the end of the list
LoopAtShort(js, p) == IF p < Len(js) THEN "iter" ELSE "done"

\* Where the for loop of line 46 stands once it is at position p of js:
\* about to look at a job, or past the end of the list (the task is over).
LoopAt(js, p) == IF p <= Len(js) THEN "iter" ELSE "done"

\* The task spawned at a tick (line 45): the captured now, the for loop's
\* position in jobs, where it stands (st) and what it has done with each job
\* so far (did).
NewUnit(js, t) ==
    [now |-> t, pos |-> 1, st |-> LoopAt(js, 1), did |-> [j \in DOMAIN js |-> Untouched]]

\* No Request::read is under way
NoRead ==
    /\ sent = <<>>
    /\ stream = <<>>
    /\ rpc = "idle"
    /\ head = "none"
    /\ body = <<>>
    /\ filled = 0
    /\ result = "none"

Init ==
    /\ jobs \in SeqsUpTo(Registry, MaxJobs)
    /\ pc = "new"
    /\ time = 0
    /\ clock = 0
    /\ units = <<>>
    /\ sink = EmptyBag
    /\ NoRead

\* An interval whose first tick waits a full period
RunDelayed ==
    /\ pc = "new"
    /\ pc' = "tick"
    /\ clock' = time + 1
    /\ UNCHANGED <<http, jobs, time, units, sink>>

\* Clock::run is called: the interval is created (line 38); its first tick
\* is due at once, the following ones a second apart.
Run ==
    /\ pc = "new"
    /\ pc' = "tick"
    /\ clock' = time
    /\ UNCHANGED <<http, jobs, time, units, sink>>

\* A loop that joins the tasks it spawned before it takes its next tick
TickReadyJoined == pc = "tick" /\ time >= clock /\ \A u \in DOMAIN units : units[u].st = "done"

\* clock.tick().await completes (line 41)
TickReady == pc = "tick" /\ time >= clock

\* A second passes while the loop waits for its next tick.
Advance ==
    /\ pc = "tick"
    /\ ~TickReady
    /\ Len(units) < MaxTicks
    /\ time' = time + 1
    /\ UNCHANGED <<http, jobs, pc, clock, units, sink>>

\* A loop that spawns a unit only when the earlier ones are over
TickSerial ==
    /\ TickReady
    /\ \A u \in DOMAIN units : units[u].st = "done"
    /\ Len(units) < MaxTicks
    /\ clock' = clock + 1
    /\ units' = Append(units, [now |-> time, pos |-> 1, st |-> LoopAt(jobs, 1),
                               did |-> [j \in DOMAIN jobs |-> Untouched]])
    /\ pc' = "tick"
    /\ UNCHANGED <<http, jobs, time, sink>>

\* One turn of the loop (lines 41-60): the tick fires, now is captured, the
\* list is cloned and the task is spawned; the loop is back at the tick.
Tick ==
    /\ TickReady
    /\ Len(units) < MaxTicks
    /\ clock' = clock + 1
    /\ units' = Append(units, NewUnit(jobs, time))
    /\ pc' = "tick"
    /\ UNCHANGED <<http, jobs, time, sink>>

\* A unit that reads the clock again at every check
CheckTimeFresh(u) == time

\* The timestamp a unit hands to should_run (line 47: &now)
CheckTime(u) == units[u].now

\* A for loop that steps over the job after the one dealt with
AdvancedSkip(unit) ==
    [unit EXCEPT !.pos = @ + 2, !.st = LoopAt(jobs, unit.pos + 2)]

\* A for loop that looks at every job a second time before it moves on
AdvancedRecheck(unit) ==
    IF unit.did[unit.pos].asked < 2
    THEN [unit EXCEPT !.st = "iter"]
    ELSE [unit EXCEPT !.pos = @ + 1, !.st = LoopAt(jobs, unit.pos + 1)]

\* The unit once its job at pos has been dealt with: the for loop moves on.
Advanced(unit) ==
    [unit EXCEPT !.pos = @ + 1, !.st = LoopAt(jobs, unit.pos + 1)]

\* schedule() is spawned, not awaited: the for loop goes on at once
CheckDetached(u, j) ==
    /\ units[u].st = "iter"
    /\ units[u].pos = j
    /\ LET t == units[u].now
           b == t \in jobs[j].cron
       IN  units' = [units EXCEPT ![u] =
                [units[u] EXCEPT !.did[j] = Checked(@, t, b),
                                 !.pos = @ + 1, !.st = LoopAt(jobs, j + 1)]]
    /\ UNCHANGED <<http, jobs, pc, time, clock, sink>>

\* schedule() takes the job's args instead of cloning them
CheckMoveArgs(u, j) ==
    /\ units[u].st = "iter"
    /\ units[u].pos = j
    /\ LET t == units[u].now
           b == t \in jobs[j].cron
           seen == [units[u] EXCEPT !.did[j] = Checked(@, t, b)]
       IN  /\ units' = [units EXCEPT ![u] =
                IF b THEN [seen EXCEPT !.st = "await"]
                ELSE [seen EXCEPT !.pos = @ + 1, !.st = LoopAt(jobs, j + 1)]]
           /\ jobs' = IF b THEN [jobs EXCEPT ![j].args = "moved"] ELSE jobs
    /\ UNCHANGED <<http, pc, time, clock, sink>>

\* A unit overtaken by a later tick drops the jobs it has not got to yet
CheckUnlessStale(u, j) ==
    /\ units[u].st = "iter"
    /\ units[u].pos = j
    /\ LET t == units[u].now
           b == t \in jobs[j].cron /\ Len(units) = u
           seen == [units[u] EXCEPT !.did[j] = Checked(@, t, b)]
       IN  units' = [units EXCEPT ![u] =
                IF b THEN [seen EXCEPT !.st = "await"]
                ELSE [seen EXCEPT !.pos = @ + 1, !.st = LoopAt(jobs, j + 1)]]
    /\ UNCHANGED <<http, jobs, pc, time, clock, sink>>

\* Jobs run under one global lock: no job starts while another unit awaits one
CheckExclusive(u, j) ==
    /\ \A v \in DOMAIN units : units[v].st # "await"
    /\ units[u].st = "iter"
    /\ units[u].pos = j
    /\ LET t == units[u].now
           b == t \in jobs[j].cron
           seen == [units[u] EXCEPT !.did[j] = Checked(@, t, b)]
       IN  units' = [units EXCEPT ![u] =
                IF b THEN [seen EXCEPT !.st = "await"]
                ELSE [seen EXCEPT !.pos = @ + 1, !.st = LoopAt(jobs, j + 1)]]
    /\ UNCHANGED <<http, jobs, pc, time, clock, sink>>

\* if job.should_run(&now) { match job.schedule().await ...  (lines 46-48):
\* unit u looks at job j; a due job's executor is invoked and awaited.
Check(u, j) ==
    /\ units[u].st = "iter"
    /\ units[u].pos = j
    /\ LET t == CheckTime(u)
           b == should_run(jobs[j], t)
           seen == [units[u] EXCEPT !.did[j] = Checked(@, t, b)]
       IN  units' = [units EXCEPT ![u] =
                IF b THEN [seen EXCEPT !.st = "await"] ELSE Advanced(seen)]
    /\ UNCHANGED <<http, jobs, pc, time, clock, sink>>

\* A report tagged with the name of the first job of the list
ReportFirst(j, err) == [job |-> jobs[1].job.job_name, err |-> err]

\* The error! line for a failed job (lines 51-55)
Report(j, err) == [job |-> job_name(jobs[j]), err |-> err]

\* schedule().await returns Ok (line 49)
ReturnOk(u) ==
    /\ units[u].st = "await"
    /\ LET j == units[u].pos
       IN  units' = [units EXCEPT ![u] =
                Advanced([units[u] EXCEPT !.did[j] = ReturnedOk(@)])]
    /\ UNCHANGED <<http, jobs, pc, time, clock, sink>>

\* The failure ends the task: the rest of the list is dropped (a break, or a ?)
ReturnErrBreak(u, err) ==
    /\ units[u].st = "await"
    /\ LET j == units[u].pos
       IN  /\ units' = [units EXCEPT ![u] =
                [units[u] EXCEPT !.did[j] = [@ EXCEPT !.errs = @ + 1], !.st = "done"]]
           /\ sink' = sink (+) SetToBag({[job |-> jobs[j].job.job_name, err |-> err]})
    /\ UNCHANGED <<http, jobs, pc, time, clock>>

\* The failure is handed up to Clock::run, which returns it
ReturnErrPropagate(u, err) ==
    /\ units[u].st = "await"
    /\ LET j == units[u].pos
       IN  units' = [units EXCEPT ![u] =
                [units[u] EXCEPT !.did[j] = [@ EXCEPT !.errs = @ + 1], !.st = "done"]]
    /\ pc' = "returned"
    /\ UNCHANGED <<http, jobs, time, clock, sink>>

\* A failed job is given a second try in the same unit
ReturnErrRetry(u, err) ==
    /\ units[u].st = "await"
    /\ LET j == units[u].pos
           failed == [units[u] EXCEPT !.did[j] = [@ EXCEPT !.errs = @ + 1]]
       IN  /\ units' = [units EXCEPT ![u] =
                IF units[u].did[j].runs < 2
                THEN [failed EXCEPT !.did[j] = [@ EXCEPT !.runs = @ + 1]]
                ELSE [failed EXCEPT !.pos = @ + 1, !.st = LoopAt(jobs, j + 1)]]
           /\ sink' = sink (+) SetToBag({[job |-> jobs[j].job.job_name, err |-> err]})
    /\ UNCHANGED <<http, jobs, pc, time, clock>>

\* schedule().await returns Err(err) (lines 50-56)
ReturnErr(u, err) ==
    /\ units[u].st = "await"
    /\ LET j == units[u].pos
       IN  /\ units' = [units EXCEPT ![u] =
                Advanced([units[u] EXCEPT !.did[j] = ReturnedErr(@)])]
           /\ sink' = sink (+) SetToBag({Report(j, err)})
    /\ UNCHANGED <<http, jobs, pc, time, clock>>

Next ==
    \/ Run
    \/ Advance
    \/ Tick
    \/ \E u \in DOMAIN units : \E j \in DOMAIN jobs : Check(u, j)
    \/ \E u \in DOMAIN units : ReturnOk(u)
    \/ \E u \in DOMAIN units : \E err \in Errors : ReturnErr(u, err)

Spec == Init /\ [][Next]_vars

\* A unit's step: the runtime polls the task; its awaited schedule() returns
UnitStep(u) ==
    /\ u \in DOMAIN units
    /\ \/ \E j \in DOMAIN jobs : Check(u, j)
       \/ ReturnOk(u)
       \/ \E err \in Errors : ReturnErr(u, err)

\* The runtime keeps polling every spawned task, and every schedule() that
\* is awaited returns in the end.
FairSpec == Spec /\ \A u \in 1 .. MaxTicks : WF_vars(UnitStep(u))

\* ------------------------------------------------------- Request::read
\* Bytes on the stream.  "G" is a byte of the request line or of a header
\* that does not matter here, "L1" and "L2" stand for a Content-Length
\* header of that value, "E" for the blank line that ends the head, "x" for
\* any other byte; all of them may occur in a body.
Bytes == {"G", "L1", "L2", "E", "x"}

\* The value a Content-Length header byte carries
LengthOf(b) == IF b = "L1" THEN 1 ELSE IF b = "L2" THEN 2 ELSE 0

\* The index of the blank line that ends the head of s, 0 if there is none
HeadEnd(s) ==
    IF \E i \in DOMAIN s : s[i] = "E"
    THEN CHOOSE i \in DOMAIN s : s[i] = "E" /\ \A k \in 1 .. i - 1 : s[k] # "E"
    ELSE 0

\* Option<usize>
None == <<>>
Some(n) == <<n>>

\* Head::content_length() of a head made of the bytes hs: Some value of a
\* Content-Length header of it, None without one
ContentLengths(hs) ==
    IF \E i \in DOMAIN hs : hs[i] \in {"L1", "L2"}
    THEN {Some(LengthOf(hs[i])) : i \in {k \in DOMAIN hs : hs[k] \in {"L1", "L2"}}}
    ELSE {None}

\* head.content_length().unwrap_or(1)
content_length_or_one(h) == IF h.content_length = None THEN 1 ELSE h.content_length[1]

\* head.content_length().unwrap_or(0)   (line 36)
content_length(h) == IF h.content_length = None THEN 0 ELSE h.content_length[1]

\* vec![0u8; content_length]   (line 37)
Zeroed(n) == [i \in 1 .. n |-> 0]

\* The Request built at lines 43-50
MakeRequest(h, b) ==
    [params |-> "None", inner |-> [head |-> h, body |-> b, cookies |-> h.cookies]]

InitRead ==
    /\ jobs = <<>>
    /\ pc = "new"
    /\ time = 0
    /\ clock = 0
    /\ units = <<>>
    /\ sink = EmptyBag
    /\ sent \in SeqsUpTo(Bytes, MaxStream)
    /\ stream = sent
    /\ rpc = "head"
    /\ head = "none"
    /\ body = <<>>
    /\ filled = 0
    /\ result = "none"

\* Head::read(&mut stream).await? (line 35) and lines 36-37: the head is
\* taken off the stream up to its blank line; without one the read fails
\* and the error is returned.
ReadHead ==
    /\ rpc = "head"
    /\ LET e == HeadEnd(stream)
       IN  IF e = 0
           THEN /\ rpc' = "err"
                /\ result' = [err |-> "head"]
                /\ stream' = <<>>
                /\ UNCHANGED <<head, body, filled>>
           ELSE \E cl \in ContentLengths(SubSeq(stream, 1, e - 1)) :
                LET h == [bytes |-> SubSeq(stream, 1, e - 1), content_length |-> cl,
                          cookies |-> <<>>]
                IN  /\ head' = h
                    /\ stream' = SubSeq(stream, e + 1, Len(stream))
                    /\ body' = Zeroed(content_length(h))
                    /\ filled' = 0
                    /\ rpc' = "body"
                    /\ UNCHANGED result
    /\ UNCHANGED <<sent, job_vars>>

\* read_exact (lines 38-40): one read of the stream puts its next n bytes
\* into the unfilled part of the buffer
ReadSome(n) ==
    /\ rpc = "body"
    /\ filled < Len(body)
    /\ n >= 1 /\ n <= Len(stream) /\ n <= Len(body) - filled
    /\ body' = [i \in DOMAIN body |->
                  IF i > filled /\ i <= filled + n THEN stream[i - filled] ELSE body[i]]
    /\ filled' = filled + n
    /\ stream' = SubSeq(stream, n + 1, Len(stream))
    /\ UNCHANGED <<sent, rpc, head, result, job_vars>>

\* A read that hands a short buffer back as the body when the stream ends
ReadEofShort ==
    /\ rpc = "body"
    /\ filled < Len(body)
    /\ stream = <<>>
    /\ rpc' = "ok"
    /\ result' = [ok |-> [params |-> "None",
                          inner |-> [head |-> head, body |-> body, cookies |-> <<>>]]]
    /\ UNCHANGED <<sent, stream, head, body, filled, job_vars>>

\* read_exact meets the end of the stream with the buffer not full: its
\* error becomes MalformedRequest("incorrect content length")  (lines 40-41)
ReadEof ==
    /\ rpc = "body"
    /\ filled < Len(body)
    /\ stream = <<>>
    /\ rpc' = "err"
    /\ result' = [err |-> "MalformedRequest(incorrect content length)"]
    /\ UNCHANGED <<sent, stream, head, body, filled, job_vars>>

\* The buffer is full: Ok(Request { .. })  (lines 43-50)
ReadDone ==
    /\ rpc = "body"
    /\ filled = Len(body)
    /\ rpc' = "ok"
    /\ result' = [ok |-> MakeRequest(head, body)]
    /\ UNCHANGED <<sent, stream, head, body, filled, job_vars>>

NextRead ==
    \/ ReadHead
    \/ \E n \in 1 .. MaxStream : ReadSome(n)
    \/ ReadEof
    \/ ReadDone

SpecRead == InitRead /\ [][NextRead]_vars

\* ------------------------------------------------------------ observations
Units == DOMAIN units
Jobs == DOMAIN jobs

\* The job's schedule matches the timestamp captured at unit u's tick
Due(u, j) == CronShouldRun(jobs[j].cron, units[u].now)

\* The ticks so far whose timestamp job j's schedule matches
DueTicks(j) == Cardinality({u \in Units : Due(u, j)})

\* schedule() calls of job j over all units, and how many returned Ok / Err
Runs(j) ==
    LET f[n \in 0 .. Len(units)] == IF n = 0 THEN 0 ELSE f[n - 1] + units[n].did[j].runs
    IN  f[Len(units)]
Oks(j) ==
    LET f[n \in 0 .. Len(units)] == IF n = 0 THEN 0 ELSE f[n - 1] + units[n].did[j].oks
    IN  f[Len(units)]
Errs(j) ==
    LET f[n \in 0 .. Len(units)] == IF n = 0 THEN 0 ELSE f[n - 1] + units[n].did[j].errs
    IN  f[Len(units)]

\* Unit u has run job j once, to its end
RanOnce(u, j) ==
    /\ units[u].did[j].runs = 1
    /\ units[u].did[j].oks + units[u].did[j].errs = 1

\* Unit u is through with job j: the for loop has moved past it
Past(u, j) == units[u].pos > j

\* Unit u has checked job j and, if it was due, called its schedule()
Reached(u, j) == Past(u, j) \/ (units[u].st = "await" /\ units[u].pos = j)

AllDone == \A u \in Units : units[u].st = "done"

\* ----------------------------------------------------------------- claims

\* C1: a failure of a due job's schedule() stays inside the tick: the unit
\* moves on to the next job, every due job before the failed one has run to
\* its end, every due job after it that the unit has got to has been run,
\* and the unit is over only at the end of the list.
C1_FailureIsolated ==
    \A u \in Units : \A j \in Jobs :
        units[u].did[j].errs > 0 =>
            /\ Past(u, j)
            /\ \A k \in Jobs : (k < j /\ Due(u, k)) => RanOnce(u, k)
            /\ \A k \in Jobs : (k > j /\ Due(u, k) /\ Reached(u, k)) => units[u].did[k].runs = 1
            /\ units[u].st = "done" => units[u].pos = Len(jobs) + 1

\* Three due jobs, the second failed, the first and the third ran and succeeded
C1_Witness ==
    \E u \in Units :
        /\ Len(jobs) = 3
        /\ \A j \in Jobs : Due(u, j)
        /\ units[u].st = "done"
        /\ units[u].did[1].oks = 1 /\ units[u].did[2].errs = 1 /\ units[u].did[3].oks = 1

\* C2: a job none of whose runs has succeeded is still checked once in every
\* unit that gets to it and attempted once in each of them where it is due,
\* so N due ticks make N attempts; the loop stays at its timer.
C2_KeepsTicking ==
    \A j \in Jobs :
        Oks(j) = 0 =>
            /\ \A u \in Units : Reached(u, j) =>
                   /\ units[u].did[j].asked = 1
                   /\ units[u].did[j].runs = (IF Due(u, j) THEN 1 ELSE 0)
            /\ Runs(j) = Cardinality({u \in Units : Due(u, j) /\ Reached(u, j)})
            /\ AllDone => Runs(j) = DueTicks(j) /\ Errs(j) = DueTicks(j)
            /\ Errs(j) > 0 => pc = "tick"

\* A job due at every tick failed at every one of MaxTicks ticks
C2_Witness ==
    \E j \in Jobs :
        /\ Len(units) = MaxTicks
        /\ \A u \in Units : Due(u, j) /\ units[u].did[j].errs = 1
        /\ Runs(j) = MaxTicks

\* C3: the loop waits for nothing but its timer: whenever the interval's
\* deadline has come the next tick can fire, whatever the units are doing.
C3_TimerNotBlocked ==
    /\ pc \in {"new", "tick"}
    /\ (pc = "tick" /\ time >= clock /\ Len(units) < MaxTicks) => ENABLED Tick

\* The second tick fired, one second after the first, while the first
\* unit still awaits a job
C3_Witness ==
    /\ Len(units) >= 2
    /\ units[1].st = "await"
    /\ units[2].now = units[1].now + 1

\* C4 as stated: while a unit awaits a job, the jobs after it that are due
\* on the same tick can be run.
C4_Original ==
    \A u \in Units : \A k \in Jobs :
        (units[u].st = "await" /\ k > units[u].pos /\ Due(u, k)) => ENABLED Check(u, k)

\* C4 amended: a job still awaited holds back the jobs after it in its own
\* unit (none is checked or run before it returns); the due jobs before it
\* have run to their end, and the other units go on with their jobs.
C4_SequentialWithinUnit ==
    \A u \in Units :
        units[u].st = "await" =>
            /\ \A k \in Jobs : (k < units[u].pos /\ Due(u, k)) => RanOnce(u, k)
            /\ \A k \in Jobs : k > units[u].pos => units[u].did[k] = Untouched
            /\ \A v \in Units \ {u} :
                   /\ units[v].st = "iter" => ENABLED Check(v, units[v].pos)
                   /\ units[v].st = "await" => ENABLED ReturnOk(v)

\* A unit awaits its first job with a due job behind it, while the unit of
\* the next tick stands before a job of its own
C4_Witness ==
    \E u \in Units : \E v \in Units \ {u} : \E k \in Jobs :
        /\ units[u].st = "await"
        /\ k > units[u].pos /\ Due(u, k)
        /\ units[v].st = "iter"

\* C5: each job's executor has been invoked once for every tick whose
\* timestamp its schedule matches and whose unit has got to the job, never
\* more; once every unit is over, that is once per matching tick.
C5_RunsEqualDueTicks ==
    \A j \in Jobs :
        /\ \A u \in Units : units[u].did[j].runs = (IF Due(u, j) /\ Reached(u, j) THEN 1 ELSE 0)
        /\ Runs(j) <= DueTicks(j)
        /\ AllDone => Runs(j) = DueTicks(j)

\* After MaxTicks ticks a job due at all of them ran MaxTicks times and a
\* job due at the second one only ran once
C5_Witness ==
    \E a \in Jobs : \E b \in Jobs :
        /\ Len(units) = MaxTicks /\ AllDone
        /\ \A u \in Units : Due(u, a)
        /\ {u \in Units : Due(u, b)} = {2}
        /\ Runs(a) = MaxTicks
        /\ Runs(b) = 1

\* A schedule no timestamp satisfies
NeverMatches(j) == \A t \in Times : ~CronShouldRun(jobs[j].cron, t)

\* C6: a job whose schedule matches no timestamp is never run and never
\* fails: no unit calls its schedule() or sees it return, and where no other
\* job bears its name the sink holds no line with that name.
C6_NeverDueNeverRuns ==
    \A j \in Jobs :
        NeverMatches(j) =>
            /\ \A u \in Units :
                   units[u].did[j].runs = 0 /\ units[u].did[j].oks = 0 /\ units[u].did[j].errs = 0
            /\ (\A k \in Jobs \ {j} : job_name(jobs[k]) # job_name(jobs[j])) =>
                   \A r \in BagToSet(sink) : r.job # job_name(jobs[j])

\* Every unit of MaxTicks ticks has checked a never-matching job, while
\* another job failed
C6_Witness ==
    \E j \in Jobs :
        /\ NeverMatches(j)
        /\ Len(units) = MaxTicks /\ AllDone
        /\ \A u \in Units : units[u].did[j].asked = 1
        /\ sink # EmptyBag

\* C7: every should_run of a unit is given the timestamp captured at the
\* unit's tick, however late it is made; so jobs with the same schedule get
\* the same answer within a unit.
C7_OneTimestampPerTick ==
    \A u \in Units : \A j \in Jobs :
        units[u].did[j].asked > 0 =>
            /\ units[u].did[j].at = units[u].now
            /\ \A k \in Jobs :
                   (units[u].did[k].asked > 0 /\ jobs[k].cron = jobs[j].cron) =>
                       units[u].did[k].due = units[u].did[j].due

\* Two jobs of the same schedule were both found due in a unit whose
\* second check came after the clock had moved on
C7_Witness ==
    \E u \in Units : \E j \in Jobs : \E k \in Jobs :
        /\ j < k
        /\ jobs[j].cron = jobs[k].cron
        /\ time > units[u].now
        /\ units[u].did[j].oks = 1
        /\ units[u].did[k].due /\ units[u].did[k].runs = 1

\* The steps in which a unit evaluates should_run
CheckStep == \E u \in Units : \E j \in Jobs : Check(u, j)

\* C8: should_run answers what the job's schedule answers for the timestamp
\* it is given, the same every time it is asked about that timestamp, and
\* asking changes neither the job list nor the sink nor the loop nor any
\* other unit.
C8_ShouldRunPure ==
    /\ [](\A u \in Units : \A j \in Jobs :
            units[u].did[j].asked > 0 =>
                /\ units[u].did[j].due = CronShouldRun(jobs[j].cron, units[u].did[j].at)
                /\ \A v \in Units : \A k \in Jobs :
                       ( /\ units[v].did[k].asked > 0
                         /\ jobs[k].cron = jobs[j].cron
                         /\ units[v].did[k].at = units[u].did[j].at )
                       => units[v].did[k].due = units[u].did[j].due)
    /\ [][CheckStep =>
            /\ UNCHANGED <<jobs, sink, pc, time, clock>>
            /\ \E u \in Units : \A v \in Units \ {u} : units'[v] = units[v]]_vars

\* A job was asked about two timestamps in two units and answered
\* differently, and a job of the same schedule was asked in one of them
C8_Witness ==
    \E u \in Units : \E v \in Units : \E j \in Jobs :
        /\ units[u].did[j].asked = 1 /\ units[v].did[j].asked = 1
        /\ units[u].did[j].at # units[v].did[j].at
        /\ units[u].did[j].due # units[v].did[j].due
        /\ \E k \in Jobs \ {j} : jobs[k].cron = jobs[j].cron /\ units[v].did[k].asked = 1

\* The lines of the sink tagged with name n
LinesOf(n) ==
    LET tagged == {r \in BagToSet(sink) : r.job = n}
    IN  BagCardinality([r \in tagged |-> sink[r]])

\* The runs of jobs named n that returned Err
ErrsOf(n) ==
    LET f[k \in 0 .. Len(jobs)] ==
            IF k = 0 THEN 0
            ELSE f[k - 1] + (IF job_name(jobs[k]) = n THEN Errs(k) ELSE 0)
    IN  f[Len(jobs)]

\* C9: the sink holds, under every job name, exactly as many lines as runs
\* of jobs of that name have returned Err, each carrying an error; a run
\* that returns Ok adds none.
C9_OneReportPerFailure ==
    /\ \A n \in JobNames : LinesOf(n) = ErrsOf(n)
    /\ \A r \in BagToSet(sink) : r.job \in JobNames /\ r.err \in Errors

\* Jobs of two names have failed and a run has succeeded
C9_Witness ==
    /\ \A n \in JobNames : LinesOf(n) >= 1
    /\ \E j \in Jobs : Oks(j) >= 1

\* C10: Clock::run, once called, is at its timer wait for ever: it never
\* returns, whatever its jobs do, and a job's failure ends up in the sink only.
C10_NeverReturns ==
    /\ pc \in {"new", "tick"}
    /\ (units # <<>> \/ sink # EmptyBag) => pc = "tick"

\* Jobs have failed, one has succeeded and one is still awaited
C10_Witness ==
    /\ sink # EmptyBag
    /\ \E j \in Jobs : Oks(j) >= 1
    /\ \E u \in Units : units[u].st = "await"
    /\ Len(units) = MaxTicks

\* schedule() of job j has been called in unit u and has not returned yet
InFlight(u, j) == units[u].did[j].runs > units[u].did[j].oks + units[u].did[j].errs

\* C13 as stated: once a job of a tick has been run, every job of the list
\* has had its should_run check for that tick.
C13_Original ==
    \A u \in Units :
        (\E j \in Jobs : units[u].did[j].runs > 0) => \A k \in Jobs : units[u].did[k].asked > 0

\* C13 amended: a unit checks its jobs one by one between its runs: a job is
\* checked only when every job before it has been checked and every due one
\* of them has run to its end; the answer is nonetheless the one the
\* timestamp captured at the tick gives.
C13_ChecksInterleaved ==
    \A u \in Units : \A k \in Jobs :
        units[u].did[k].asked > 0 =>
            /\ units[u].did[k].due = Due(u, k)
            /\ \A i \in Jobs : i < k =>
                   /\ units[u].did[i].asked = 1
                   /\ units[u].did[i].runs = (IF Due(u, i) THEN 1 ELSE 0)
                   /\ ~InFlight(u, i)

\* A due job is checked after a due job before it has been run and has returned
C13_Witness ==
    \E u \in Units : \E i \in Jobs : \E k \in Jobs :
        /\ i < k
        /\ units[u].did[i].errs = 1
        /\ units[u].did[k].asked = 1 /\ units[u].did[k].due
        /\ units[u].did[Len(jobs)].asked = 0

\* C14: in one unit at most one job is in flight, the one the for loop
\* stands at; a job has been run only if every job before it in the list
\* has been dealt with: checked, and run to its end if due.
C14_SequentialInListOrder ==
    \A u \in Units :
        /\ Cardinality({j \in Jobs : InFlight(u, j)}) <= 1
        /\ \A j \in Jobs :
               /\ InFlight(u, j) => (units[u].st = "await" /\ units[u].pos = j)
               /\ units[u].did[j].runs > 0 =>
                      \A i \in Jobs : i < j =>
                          /\ units[u].did[i].asked > 0
                          /\ units[u].did[i].runs = units[u].did[i].oks + units[u].did[i].errs

\* The third of three due jobs is in flight after the first two returned
C14_Witness ==
    \E u \in Units :
        /\ Len(jobs) = 3
        /\ \A j \in Jobs : Due(u, j)
        /\ RanOnce(u, 1) /\ RanOnce(u, 2) /\ InFlight(u, 3)

\* The executions of job j in progress
InProgress(j) == Cardinality({u \in Units : InFlight(u, j)})

\* C15 as stated: at most one unit is in flight at any time, and no job has
\* two executions in progress.
C15_Original ==
    /\ Cardinality({u \in Units : units[u].st # "done"}) <= 1
    /\ \A j \in Jobs : InProgress(j) <= 1

\* C15 amended: the bound is one job in flight per unit, not one unit: a
\* new unit is spawned at every tick whether or not the earlier ones are
\* over, so a job has at most as many executions in progress as ticks have
\* fired.
C15_OneJobPerUnit ==
    /\ \A u \in Units : Cardinality({j \in Jobs : InFlight(u, j)}) <= 1
    /\ \A j \in Jobs : InProgress(j) <= Len(units)
    /\ (pc = "tick" /\ time >= clock /\ Len(units) < MaxTicks /\ ~AllDone) => ENABLED Tick

\* The same job is in flight in the units of MaxTicks ticks at once
C15_Witness ==
    \E j \in Jobs :
        /\ Len(units) = MaxTicks
        /\ InProgress(j) = MaxTicks

\* C16: a unit runs a job at most once, failed or not, and only if the
\* unit's timestamp matches its schedule; so a job that failed in a unit is
\* run again only by the unit of another tick that matches.
C16_NoRetry ==
    \A u \in Units : \A j \in Jobs :
        /\ units[u].did[j].runs <= 1
        /\ units[u].did[j].oks + units[u].did[j].errs <= units[u].did[j].runs
        /\ units[u].did[j].runs = 1 => Due(u, j)
        /\ units[u].did[j].errs > 0 =>
               /\ units[u].did[j].errs = 1 /\ units[u].did[j].oks = 0
               /\ Past(u, j)
               /\ Runs(j) <= DueTicks(j)

\* A job failed at the first tick and was run again at the second, once
C16_Witness ==
    \E j \in Jobs :
        /\ Len(units) >= 2
        /\ units[1].did[j].errs = 1 /\ units[1].did[j].runs = 1
        /\ units[2].did[j].runs = 1
        /\ AllDone

\* C17 as stated: no tick fires, and no timestamp is captured, earlier than
\* one second after Clock::run started (at second 0).
C17_Original ==
    \A u \in Units : units[u].now >= 1

\* C17 amended: the first tick fires at once when the loop starts; every
\* later tick fires one second after the tick before it, whatever the units
\* spawned so far are doing.
C17_FirstTickAtOnce ==
    /\ \A u \in Units : units[u].now = u - 1
    /\ pc = "tick" => clock = Len(units)
    /\ time <= clock

\* The second tick fired one second after the first, whose unit is not over
C17_Witness ==
    /\ Len(units) = 2
    /\ units[1].now = 0 /\ units[2].now = 1
    /\ units[1].st = "await"

\* C18: no step changes the job list: same jobs, same order, same args and
\* schedules as at construction.
C18_JobsFrozen == [][jobs' = jobs]_vars

\* A full list after MaxTicks ticks with failures, all units over
C18_Witness ==
    /\ Len(jobs) = MaxJobs
    /\ Len(units) = MaxTicks /\ AllDone
    /\ sink # EmptyBag
    /\ \E j \in Jobs : Oks(j) > 0

\* C19: a unit makes one pass over the list: it checks no job twice, its
\* position never goes back, it is over exactly when it has checked every
\* job once; and, every awaited schedule() returning, it gets there: again
\* and again all the units spawned so far are over.
C19_UnitTerminates ==
    /\ [](\A u \in Units :
            /\ \A j \in Jobs : units[u].did[j].asked <= 1
            /\ \A j \in Jobs : units[u].did[j].asked = (IF Reached(u, j) THEN 1 ELSE 0)
            /\ (units[u].st = "done") = (units[u].pos = Len(jobs) + 1))
    /\ [][\A u \in Units : units'[u].pos >= units[u].pos]_vars
    /\ []<>AllDone

\* A unit is over, three jobs checked once each, two of them run
C19_Witness ==
    \E u \in Units :
        /\ Len(jobs) = 3
        /\ units[u].st = "done"
        /\ \A j \in Jobs : units[u].did[j].asked = 1
        /\ Cardinality({j \in Jobs : units[u].did[j].runs = 1}) = 2

\* C20: a unit that later ticks have overtaken still goes on with its
\* list: the job it stands at can be checked, and every job it has got to
\* was asked about the unit's own timestamp and run exactly if that
\* timestamp matches its schedule.
C20_LateButRun ==
    \A u \in Units :
        (u < Len(units) \/ time > units[u].now) =>
            /\ units[u].st = "iter" => ENABLED Check(u, units[u].pos)
            /\ \A j \in Jobs : Reached(u, j) =>
                   /\ units[u].did[j].at = units[u].now
                   /\ units[u].did[j].runs = (IF Due(u, j) THEN 1 ELSE 0)

\* The first unit, overtaken by the second tick, ran a job behind its first
\* one and found another not due that the newer time would make due
C20_Witness ==
    \E j \in Jobs : \E k \in Jobs :
        /\ Len(units) = 2 /\ time > units[1].now
        /\ j > 1 /\ Due(1, j) /\ units[1].did[j].runs = 1
        /\ units[1].did[k].asked = 1 /\ ~units[1].did[k].due
        /\ CronShouldRun(jobs[k].cron, time)

\* ------------------------------------------------------ Request::read claims
\* The bytes of sent that follow its head
AfterHead == SubSeq(sent, HeadEnd(sent) + 1, Len(sent))

\* C11: a Request that read returns holds as its body exactly the first
\* content_length bytes after the head, in order, content_length being the
\* head's Content-Length or 0 without one; the bytes behind them stay on
\* the stream.
C11_BodyExactLength ==
    rpc = "ok" =>
        LET cl == IF head.content_length = None THEN 0 ELSE head.content_length[1]
        IN  /\ HeadEnd(sent) > 0
            /\ head.content_length \in ContentLengths(SubSeq(sent, 1, HeadEnd(sent) - 1))
            /\ result.ok.inner.head = head
            /\ Len(result.ok.inner.body) = cl
            /\ result.ok.inner.body = SubSeq(AfterHead, 1, cl)
            /\ stream = SubSeq(AfterHead, cl + 1, Len(AfterHead))

\* A request without Content-Length came back with an empty body though
\* bytes follow its head
C11_Witness ==
    /\ rpc = "ok"
    /\ head.content_length = None
    /\ result.ok.inner.body = <<>>
    /\ stream # <<>>

\* C12: read returns a Request only if the stream held content_length bytes
\* after the head; when it ends before that, the result is the error
\* MalformedRequest("incorrect content length") and no Request; a head that
\* cannot be read is an error too.
C12_NoTruncatedRequest ==
    /\ rpc = "ok" =>
           /\ DOMAIN result = {"ok"}
           /\ filled = Len(body)
           /\ Len(AfterHead) >= Len(body)
    /\ rpc = "err" =>
           IF HeadEnd(sent) = 0
           THEN result = [err |-> "head"]
           ELSE /\ result = [err |-> "MalformedRequest(incorrect content length)"]
                /\ Len(AfterHead) < Len(body)
    /\ (rpc = "body" /\ Len(AfterHead) < Len(body)) => ~ENABLED ReadDone
    /\ (rpc = "body" /\ filled < Len(body) /\ stream = <<>>) => ENABLED ReadEof

\* The stream ended after one of the two bytes the head announced
C12_Witness ==
    /\ rpc = "err"
    /\ HeadEnd(sent) > 0
    /\ Len(body) = 2 /\ filled = 1

====
